---- MODULE Spec2Model ----
(***************************************************************************)
(* Device-tree fixup and installation of the linux-bootloader crate:       *)
(* bytes_to_pages (uefi_helpers.rs), fixup_fdt, install_fdt and the        *)
(* FdtLoader lifecycle (fdt_loader.rs), run against a firmware whose       *)
(* answers are chosen nondeterministically.                                *)
(***************************************************************************)
EXTENDS Integers, Sequences, FiniteSets, TLC

(***************************************************************************)
(* Bounds of the model.                                                    *)
(***************************************************************************)
\* Width in bits of usize in the model (usize::BITS of the target).
UsizeBits == 16
\* Number of FdtLoader::new calls in one run.
MaxLoaders == 2
\* Longest of the short device-tree blobs handed to FdtLoader::new.
MaxBlobLen == 2
\* Width in bits of u64, the type of the reported image size, in the model.
ImageSizeBits == 18
\* Reported image sizes lie within this distance of 0, usize::MAX or u64::MAX.
ImageEdge == 8

(***************************************************************************)
(* Program constants.                                                      *)
(***************************************************************************)
UEFI_PAGE_BITS == 12
UEFI_PAGE_MASK == (2 ^ UEFI_PAGE_BITS) - 1
PageSize == 2 ^ UEFI_PAGE_BITS

\* usize::MAX
MaxUsize == (2 ^ UsizeBits) - 1

\* x << k on usize: bits shifted out of the word are discarded.
ShiftLeft(x, k) == (x * (2 ^ k)) % (2 ^ UsizeBits)

\* x >> k on usize.
ShiftRight(x, k) == x \div (2 ^ k)

\* usize::checked_add: <<"Some", sum>>, or <<"None", 0>> on overflow.
checked_add(a, b) == IF a + b > MaxUsize THEN <<"None", 0>> ELSE <<"Some", a + b>>

\* A bytes_to_pages that rounds down instead of up.
bytes_to_pages_floor(bytes) == ShiftRight(bytes, UEFI_PAGE_BITS)

\* A bytes_to_pages whose fallback is one page less.
bytes_to_pages_lowsat(bytes) ==
    LET rounded_up == checked_add(bytes, UEFI_PAGE_MASK)
    IN  IF rounded_up[1] = "Some"
        THEN ShiftRight(rounded_up[2], UEFI_PAGE_BITS)
        ELSE ShiftLeft(1, UsizeBits - UEFI_PAGE_BITS) - 1

\* Converts a length in bytes to the number of required pages.
bytes_to_pages(bytes) ==
    LET rounded_up == checked_add(bytes, UEFI_PAGE_MASK)
    IN  IF rounded_up[1] = "Some"
        THEN ShiftRight(rounded_up[2], UEFI_PAGE_BITS)
        ELSE ShiftLeft(1, UsizeBits - UEFI_PAGE_BITS)

(***************************************************************************)
(* uefi::Status values the firmware may answer with, and uefi::Result.     *)
(***************************************************************************)
SUCCESS == "SUCCESS"
BUFFER_TOO_SMALL == "BUFFER_TOO_SMALL"
DEVICE_ERROR == "DEVICE_ERROR"
OUT_OF_RESOURCES == "OUT_OF_RESOURCES"
WARN_WRITE_FAILURE == "WARN_WRITE_FAILURE"

\* Every status a firmware call may return: success, errors and a warning.
Statuses == {SUCCESS, BUFFER_TOO_SMALL, DEVICE_ERROR, OUT_OF_RESOURCES, WARN_WRITE_FAILURE}

Ok == <<"Ok", "()">>
Err(status) == <<"Err", status>>
\* A panic (assert!, todo!) or a fault: the call does not return a value.
Abort(why) == <<"Abort", why>>

\* Status::is_success
is_success(status) == status = SUCCESS

\* A to_result that lets BUFFER_TOO_SMALL pass as success.
to_result_lenient(status) ==
    IF is_success(status) \/ status = BUFFER_TOO_SMALL THEN Ok ELSE Err(status)

\* StatusExt::to_result: Ok(()) on SUCCESS, Err(status) on anything else.
to_result(status) == IF is_success(status) THEN Ok ELSE Err(status)

(***************************************************************************)
(* DTFixupFlags, a set of bit positions; bits() is its u32 value.          *)
(***************************************************************************)
APPLY_FIXUPS == {0}
RESERVE_MEMORY == {1}
\* EFI_DT_INSTALL_TABLE of the protocol, which the bitflags type leaves out.
INSTALL_TABLE_BIT == 2

RECURSIVE bits(_)
bits(flags) ==
    IF flags = {} THEN 0
    ELSE LET b == CHOOSE x \in flags : TRUE IN (2 ^ b) + bits(flags \ {b})

\* A flags argument that asks for the fixups only.
FixupFlagsApplyOnly == APPLY_FIXUPS

\* The flags argument of both fixup calls.
FixupFlags == APPLY_FIXUPS \cup RESERVE_MEMORY

(***************************************************************************)
(* Byte buffers, run-length encoded: a sequence of runs of n > 0 equal     *)
(* bytes v.  Inputs: the blobs handed to FdtLoader::new and the sizes the  *)
(* firmware may write back.                                                *)
(***************************************************************************)
Run(n, v) == [n |-> n, v |-> v]

\* Vec::len: the number of bytes of buf.
RECURSIVE VecLen(_)
VecLen(buf) == IF buf = <<>> THEN 0 ELSE Head(buf).n + VecLen(Tail(buf))

\* The first count bytes of buf (all of buf when it is shorter).
RECURSIVE Take(_, _)
Take(buf, count) ==
    IF count = 0 \/ buf = <<>> THEN <<>>
    ELSE IF Head(buf).n <= count
         THEN <<Head(buf)>> \o Take(Tail(buf), count - Head(buf).n)
         ELSE <<Run(count, Head(buf).v)>>

\* A blob of n distinct neighbouring bytes.
MkBlob(n) == [i \in 1..n |-> Run(1, (i * 37) % 256)]

\* A blob one byte longer than a page: a header byte and zero padding.
LongBlob == <<Run(1, 208), Run(PageSize, 0)>>

Blobs == {MkBlob(n) : n \in 0..MaxBlobLen} \cup {LongBlob}

RequiredSizes ==
    {0, 1, UEFI_PAGE_MASK, PageSize, PageSize + 1, 2 * PageSize,
     MaxUsize - UEFI_PAGE_MASK, MaxUsize - UEFI_PAGE_MASK + 1, MaxUsize}

LoaderIds == 1..MaxLoaders

(***************************************************************************)
(* State.                                                                  *)
(***************************************************************************)
VARIABLES
    loader,       \* loader[i]: the FdtLoader made by the i-th FdtLoader::new call:
                  \* life ("unborn", "failed", "live", "dropped") and the field set
    halted,       \* "none", or why the program stopped (a panic or a fault)
    built,        \* the latest FdtLoader::new call: id, fdt_data, found, result
    log,          \* the firmware calls and buffer steps of that call, in order
    newBuf,       \* the pages allocated in that call: cap bytes, data copied in
    last,         \* the latest operation: op, id, wasSet (set before it), result
    configTable,  \* the firmware's device-tree configuration table entry
    pagesHeld,    \* page allocations made and not released
    pagesFreed,   \* page allocations released
    pgBytes,      \* argument of the bytes_to_pages call under test
    pgPages,      \* its result, NotComputed before the call
    imgIn,        \* what the firmware reports to the booted_image_file call under test
    imgOut        \* its result, NotCalled before the call

vars == <<loader, halted, built, log, newBuf, last, configTable, pagesHeld,
          pagesFreed, pgBytes, pgPages, imgIn, imgOut>>

NotComputed == -1
NoTable == [id |-> 0, buf |-> "none"]
NoBuf == [cap |-> 0, data |-> <<>>]
NoCall == [id |-> 0, fdt_data |-> <<>>, found |-> FALSE, result |-> <<"None", "-">>]
NotCalled == <<"None", "-">>
NoImage == [open |-> SUCCESS, image_base |-> 0, image_size |-> 0]
NoOp == [op |-> "none", id |-> 0, wasSet |-> FALSE, result |-> <<"None", "-">>]

\* One entry of log.
Ev(op, buf, arg, flags, ty, mem, ret, out) ==
    [op |-> op, buf |-> buf, arg |-> arg, flags |-> flags, ty |-> ty, mem |-> mem,
     ret |-> ret, out |-> out]

\* (fixup_protocol.fixup)(this, buf, &mut fdt_size, flags) -> status, with
\* out the value the call leaves in fdt_size.
FixupEv(buf, fdt_size, flags, status, out) ==
    Ev("fixup", buf, fdt_size, bits(flags), "-", "-", status, out)

\* boot_services.allocate_pages(AnyPages, ACPI_NON_VOLATILE, num_pages)
AllocEv(num_pages, status) ==
    Ev("allocate_pages", "new", num_pages, 0, "AnyPages", "ACPI_NON_VOLATILE", status, 0)

\* copy_nonoverlapping(fdt_data.as_ptr(), base, count)
CopyEv(count) == Ev("copy", "new", count, 0, "-", "-", "-", 0)

\* fdt_data goes out of scope or is dropped: the Vec's memory is freed.
DropEv == Ev("drop", "orig", 0, 0, "-", "-", "-", 0)

(***************************************************************************)
(* The firmware, as far as the loader can observe it.                      *)
(***************************************************************************)
OpenStatuses == {SUCCESS, "ACCESS_DENIED"}
AllocStatuses == {SUCCESS, OUT_OF_RESOURCES}

\* The size the fixup call leaves in *buffer_size: the required size on
\* BUFFER_TOO_SMALL, the size passed in otherwise.
FirmwareSizeOut(size_in, status, required) ==
    IF status = BUFFER_TOO_SMALL THEN required ELSE size_in

\* The configuration table after a fixup call: the protocol installs the
\* buffer as the device-tree table only when asked to by EFI_DT_INSTALL_TABLE.
FirmwareTable(table, buf, flags, status) ==
    IF is_success(status) /\ INSTALL_TABLE_BIT \in flags THEN buf ELSE table

\* The bytes a copy of count bytes from src leaves at the destination; a read
\* past the end of src yields no byte of src (256).
CopiedBytes(src, count) ==
    LET n == VecLen(src)
    IN  IF count <= n THEN Take(src, count) ELSE src \o <<Run(count - n, 256)>>

(***************************************************************************)
(* fixup_fdt                                                               *)
(***************************************************************************)
\* A first-call dispatch without the early return on success: only an error
\* other than BUFFER_TOO_SMALL returns, everything else grows the buffer.
FirstOutcomeNoEarlyOk(status) ==
    IF status \in {DEVICE_ERROR, OUT_OF_RESOURCES} THEN "err" ELSE "grow"

\* A first-call dispatch that grows the buffer on every failure.
FirstOutcomeGrowsOnAny(status) ==
    IF is_success(status) THEN "ok" ELSE "grow"

\* What fixup_fdt does with the status of the first fixup call.
FirstOutcome(status) ==
    IF is_success(status) THEN "ok"
    ELSE IF status # BUFFER_TOO_SMALL THEN "err"
    ELSE "grow"

\* A copy of the new, page-rounded size instead of the blob's length.
CopyCountNewSize(fdt_data, fdt_size) == fdt_size

\* The count argument of copy_nonoverlapping.
CopyCount(fdt_data, fdt_size) == VecLen(fdt_data)

\* An allocate_pages whose error is ignored.
AllocFailedIgnored(status) == FALSE

\* The `?` on allocate_pages: an error status leaves fixup_fdt.
AllocFailed(status) == ~is_success(status)

\* A retry that grows and calls once more on a second BUFFER_TOO_SMALL.
RetryStepsRegrow(fdt_size, status2) ==
    IF status2 = BUFFER_TOO_SMALL
    THEN <<FixupEv("new", fdt_size, FixupFlags, status2, fdt_size),
           AllocEv(bytes_to_pages(fdt_size), SUCCESS),
           FixupEv("new", fdt_size, FixupFlags, status2, fdt_size)>>
    ELSE <<FixupEv("new", fdt_size, FixupFlags, status2, fdt_size)>>

\* The steps of the retry: one fixup call on the new pages, whose status is
\* the value of fixup_fdt.
RetrySteps(fdt_size, status2) ==
    <<FixupEv("new", fdt_size, FixupFlags, status2, fdt_size)>>

\* A grow path that frees the blob before copying from it.
GrowLogDropFirst(call1, allocEv, copyEv, retry) ==
    <<call1, allocEv, DropEv, copyEv>> \o retry

\* The order of the steps of the grow path.
GrowLog(call1, allocEv, copyEv, retry) ==
    <<call1, allocEv, copyEv, DropEv>> \o retry

\* A fixup_fdt that frees the pages again when it does not return Ok.
ReleasedOnFailure(result, took) == IF result = Ok THEN 0 ELSE took

\* The page allocations fixup_fdt releases before it returns: it calls
\* free_pages on no path.
Released(result, took) == 0

\* The tail of FdtLoader::new: result is what fixup_fdt or install_fdt gave;
\* `?` hands an error to the caller, Ok builds FdtLoader { handle, set: true }.
Return(id, fdt_data, found, result, lg, buf, took, table) ==
    /\ loader' = [loader EXCEPT ![id] =
                    IF result = Ok THEN [life |-> "live", set |-> TRUE]
                    ELSE [life |-> "failed", set |-> FALSE]]
    /\ halted' = IF result[1] = "Abort" THEN result[2] ELSE "none"
    /\ built' = [id |-> id, fdt_data |-> fdt_data, found |-> found, result |-> result]
    /\ last' = [op |-> "new", id |-> id, wasSet |-> FALSE, result |-> result]
    /\ log' = lg
    /\ newBuf' = buf
    /\ configTable' = table
    /\ pagesHeld' = pagesHeld + took - Released(result, took)
    /\ pagesFreed' = pagesFreed + Released(result, took)
    /\ UNCHANGED <<pgBytes, pgPages, imgIn, imgOut>>

\* The grow path of fixup_fdt, after the first call left fdt_size1 in fdt_size.
Grow(id, fdt_data, call1, fdt_size1) ==
    LET num_pages == bytes_to_pages(fdt_size1)
        fdt_size == ShiftLeft(num_pages, UEFI_PAGE_BITS)
        cap == num_pages * PageSize
        count == CopyCount(fdt_data, fdt_size)
        copied == [cap |-> cap, data |-> CopiedBytes(fdt_data, count)]
    IN  \E alloc \in AllocStatuses :
          IF AllocFailed(alloc)
             THEN Return(id, fdt_data, TRUE, Err(alloc),
                         <<call1, AllocEv(num_pages, alloc), DropEv>>,
                         NoBuf, 0, configTable)
             ELSE \E overrun \in (IF count > cap THEN {"proceeds", "fault"}
                                   ELSE {"proceeds"}) :
                    IF count > cap /\ overrun = "fault"
                    THEN Return(id, fdt_data, TRUE, Abort("fault"),
                                <<call1, AllocEv(num_pages, alloc), CopyEv(count)>>,
                                copied, 1, configTable)
                    ELSE \E status2 \in Statuses :
                           Return(id, fdt_data, TRUE, to_result(status2),
                                  GrowLog(call1, AllocEv(num_pages, alloc),
                                          CopyEv(count),
                                          RetrySteps(fdt_size, status2)),
                                  copied, 1,
                                  FirmwareTable(configTable, [id |-> id, buf |-> "new"],
                                                FixupFlags, status2))

fixup_fdt(id, fdt_data) ==
    \E open \in OpenStatuses :
      IF ~is_success(open)
      THEN Return(id, fdt_data, TRUE, Err(open), <<DropEv>>, NoBuf, 0, configTable)
      ELSE \E status \in Statuses :
           \E required \in (IF status = BUFFER_TOO_SMALL THEN RequiredSizes
                            ELSE {VecLen(fdt_data)}) :
             LET fdt_size == VecLen(fdt_data)
                 fdt_size1 == FirmwareSizeOut(fdt_size, status, required)
                 call1 == FixupEv("orig", fdt_size, FixupFlags, status, fdt_size1)
                 table == FirmwareTable(configTable, [id |-> id, buf |-> "orig"],
                                        FixupFlags, status)
                 outcome == FirstOutcome(status)
             IN  IF outcome = "ok"
                 THEN Return(id, fdt_data, TRUE, Ok, <<call1, DropEv>>, NoBuf, 0, table)
                 ELSE IF outcome = "err"
                 THEN Return(id, fdt_data, TRUE, to_result(status), <<call1, DropEv>>,
                             NoBuf, 0, table)
                 ELSE Grow(id, fdt_data, call1, fdt_size1)

(***************************************************************************)
(* install_fdt: todo!()                                                    *)
(***************************************************************************)
\* An install_fdt stub that reports success without registering anything.
install_fdt_silent(id, fdt_data) ==
    Return(id, fdt_data, FALSE, Ok, <<>>, NoBuf, 0, configTable)

install_fdt(id, fdt_data) ==
    Return(id, fdt_data, FALSE, Abort("todo"), <<>>, NoBuf, 0, configTable)

(***************************************************************************)
(* FdtLoader                                                               *)
(***************************************************************************)
\* The next FdtLoader::new call is the id-th.
NextId == Cardinality({i \in LoaderIds : loader[i].life # "unborn"}) + 1

FdtLoader_new ==
    /\ halted = "none"
    /\ NextId \in LoaderIds
    /\ \E fdt_data \in Blobs, found \in BOOLEAN :
         IF found
         THEN fixup_fdt(NextId, fdt_data)
         ELSE install_fdt(NextId, fdt_data)

\* An uninstall without the assertion.
uninstall_noassert(self) == [self |-> [self EXCEPT !.set = FALSE], result |-> Ok]

\* An uninstall that forgets to clear set.
uninstall_keeps_set(self) ==
    IF self.set
    THEN [self |-> self, result |-> Ok]
    ELSE [self |-> self, result |-> Abort("assert!(self.set)")]

\* An uninstall that flips set instead of asserting and clearing it.
uninstall_toggles(self) == [self |-> [self EXCEPT !.set = ~self.set], result |-> Ok]

\* FdtLoader::uninstall: assert!(self.set); self.set = false; Ok(())
uninstall(self) ==
    IF self.set
    THEN [self |-> [self EXCEPT !.set = FALSE], result |-> Ok]
    ELSE [self |-> self, result |-> Abort("assert!(self.set)")]

\* A drop that uninstalls by itself instead of asserting.
drop_uninstalls(self) == [self |-> [self EXCEPT !.set = FALSE], result |-> Ok]

\* Drop for FdtLoader: assert!(!self.set)
drop(self) ==
    IF ~self.set
    THEN [self |-> self, result |-> Ok]
    ELSE [self |-> self, result |-> Abort("assert!(!self.set)")]

Uninstall(id) ==
    /\ halted = "none"
    /\ loader[id].life = "live"
    /\ LET r == uninstall(loader[id])
       IN  /\ loader' = [loader EXCEPT ![id] = r.self]
           /\ halted' = IF r.result[1] = "Abort" THEN r.result[2] ELSE "none"
           /\ last' = [op |-> "uninstall", id |-> id, wasSet |-> loader[id].set,
                       result |-> r.result]
    /\ UNCHANGED <<built, log, newBuf, configTable, pagesHeld, pagesFreed, pgBytes,
                   pgPages, imgIn, imgOut>>

Drop(id) ==
    /\ halted = "none"
    /\ loader[id].life = "live"
    /\ LET r == drop(loader[id])
       IN  /\ loader' = [loader EXCEPT ![id] =
                           IF r.result = Ok THEN [r.self EXCEPT !.life = "dropped"]
                           ELSE r.self]
           /\ halted' = IF r.result[1] = "Abort" THEN r.result[2] ELSE "none"
           /\ last' = [op |-> "drop", id |-> id, wasSet |-> loader[id].set,
                       result |-> r.result]
    /\ UNCHANGED <<built, log, newBuf, configTable, pagesHeld, pagesFreed, pgBytes,
                   pgPages, imgIn, imgOut>>

Init ==
    /\ loader = [i \in LoaderIds |-> [life |-> "unborn", set |-> FALSE]]
    /\ halted = "none"
    /\ built = NoCall
    /\ log = <<>>
    /\ newBuf = NoBuf
    /\ last = NoOp
    /\ configTable = NoTable
    /\ pagesHeld = 0
    /\ pagesFreed = 0
    /\ pgBytes = 0
    /\ pgPages = NotComputed
    /\ imgIn = NoImage
    /\ imgOut = NotCalled

Next ==
    \/ FdtLoader_new
    \/ \E id \in LoaderIds : Uninstall(id)
    \/ \E id \in LoaderIds : Drop(id)

Spec == Init /\ [][Next]_vars

(***************************************************************************)
(* bytes_to_pages on its own: every usize argument.                        *)
(***************************************************************************)
InitPages ==
    /\ loader = [i \in LoaderIds |-> [life |-> "unborn", set |-> FALSE]]
    /\ halted = "none"
    /\ built = NoCall
    /\ log = <<>>
    /\ newBuf = NoBuf
    /\ last = NoOp
    /\ configTable = NoTable
    /\ pagesHeld = 0
    /\ pagesFreed = 0
    /\ pgBytes \in 0..MaxUsize
    /\ pgPages = NotComputed
    /\ imgIn = NoImage
    /\ imgOut = NotCalled

CallBytesToPages ==
    /\ pgPages = NotComputed
    /\ pgPages' = bytes_to_pages(pgBytes)
    /\ UNCHANGED <<loader, halted, built, log, newBuf, last, configTable, pagesHeld,
                   pagesFreed, pgBytes, imgIn, imgOut>>

NextPages == CallBytesToPages

SpecPages == InitPages /\ [][NextPages]_vars

(***************************************************************************)
(* booted_image_file on its own: the firmware's LoadedImage answers.       *)
(***************************************************************************)
INVALID_PARAMETER == "INVALID_PARAMETER"

\* u64::MAX
MaxU64 == (2 ^ ImageSizeBits) - 1

ImageSizes ==
    (0..ImageEdge) \cup ((MaxUsize - ImageEdge)..(MaxUsize + ImageEdge))
        \cup ((MaxU64 - ImageEdge)..MaxU64)

ImageBases == {0, PageSize, MaxUsize}

\* A conversion that truncates like `as usize`.
usize_truncate(x) == <<"Ok", x % (2 ^ UsizeBits)>>

\* usize::try_from(u64)
usize_try_from(x) ==
    IF x <= MaxUsize THEN <<"Ok", x>> ELSE <<"Err", "TryFromIntError">>

\* booted_image_file: open LoadedImage, read (image_base, image_size), convert
\* the size; Ok(PeInMemory) or the error.
booted_image_file(fw) ==
    IF ~is_success(fw.open) THEN Err(fw.open)
    ELSE LET image_size == usize_try_from(fw.image_size)
         IN  IF image_size[1] = "Ok"
             THEN <<"Ok", [image_base |-> fw.image_base, image_size |-> image_size[2]]>>
             ELSE Err(INVALID_PARAMETER)

InitImage ==
    /\ loader = [i \in LoaderIds |-> [life |-> "unborn", set |-> FALSE]]
    /\ halted = "none"
    /\ built = NoCall
    /\ log = <<>>
    /\ newBuf = NoBuf
    /\ last = NoOp
    /\ configTable = NoTable
    /\ pagesHeld = 0
    /\ pagesFreed = 0
    /\ pgBytes = 0
    /\ pgPages = NotComputed
    /\ imgIn \in [open : OpenStatuses, image_base : ImageBases, image_size : ImageSizes]
    /\ imgOut = NotCalled

CallBootedImageFile ==
    /\ imgOut[1] = "None"
    /\ imgOut' = booted_image_file(imgIn)
    /\ UNCHANGED <<loader, halted, built, log, newBuf, last, configTable, pagesHeld,
                   pagesFreed, pgBytes, pgPages, imgIn>>

NextImage == CallBootedImageFile

SpecImage == InitImage /\ [][NextImage]_vars

(***************************************************************************)
(* Properties.                                                             *)
(***************************************************************************)
IsFixup(e) == e.op = "fixup"
IsAlloc(e) == e.op = "allocate_pages"
IsCopy(e) == e.op = "copy"

\* The fixup calls, page allocations and copies of the latest FdtLoader::new.
FixupCalls == SelectSeq(log, IsFixup)
AllocCalls == SelectSeq(log, IsAlloc)
CopyCalls == SelectSeq(log, IsCopy)

\* The least p with p * PageSize >= n, over the unbounded integers.
CeilPages(n) == (n + PageSize - 1) \div PageSize

\* The first fixup call of the latest FdtLoader::new returned status.
FirstReturned(status) == FixupCalls # <<>> /\ FixupCalls[1].ret = status

\* C1: when the first fixup call returns Success, FdtLoader::new succeeds,
\* that call is the only fixup call, and no page allocation is made.
C1_FirstSuccess ==
    FirstReturned(SUCCESS) =>
        /\ built.result = Ok
        /\ loader[built.id].life \in {"live", "dropped"}
        /\ Len(FixupCalls) = 1
        /\ AllocCalls = <<>>

C1_Witness ==
    /\ FirstReturned(SUCCESS)
    /\ built.result = Ok
    /\ loader[built.id] = [life |-> "live", set |-> TRUE]

\* C2: when the first fixup call returns a status other than Success and
\* BufferTooSmall, FdtLoader::new fails with exactly that status, makes no page
\* allocation and no second fixup call, and produces no loader.
C2_FirstError ==
    \A status \in Statuses \ {SUCCESS, BUFFER_TOO_SMALL} :
        FirstReturned(status) =>
            /\ built.result = Err(status)
            /\ AllocCalls = <<>>
            /\ Len(FixupCalls) = 1
            /\ loader[built.id].life = "failed"

C2_Witness ==
    /\ FirstReturned(WARN_WRITE_FAILURE)
    /\ built.result = Err(WARN_WRITE_FAILURE)
    /\ loader[built.id].life = "failed"

\* C3: when the first fixup call returns BufferTooSmall with required size R
\* and the second returns Success, FdtLoader::new succeeds, the allocator is
\* called exactly once, for ceil(R / 4096) pages of type ACPI_NON_VOLATILE at
\* any address, and the bytes copied into the new buffer are the whole
\* original blob: its length before the first call, neither R nor the
\* rounded size.
C3_GrowThenSuccess ==
    (/\ Len(FixupCalls) = 2
     /\ FixupCalls[1].ret = BUFFER_TOO_SMALL
     /\ FixupCalls[2].ret = SUCCESS) =>
        /\ built.result = Ok
        /\ loader[built.id].life \in {"live", "dropped"}
        /\ Len(AllocCalls) = 1
        /\ AllocCalls[1].arg = CeilPages(FixupCalls[1].out)
        /\ AllocCalls[1].ty = "AnyPages"
        /\ AllocCalls[1].mem = "ACPI_NON_VOLATILE"
        /\ Len(CopyCalls) = 1
        /\ CopyCalls[1].arg = FixupCalls[1].arg
        /\ CopyCalls[1].arg = VecLen(built.fdt_data)
        /\ newBuf.data = built.fdt_data

\* A grow whose required size and rounded size both differ from the length
\* of the blob.
C3_Witness ==
    /\ Len(FixupCalls) = 2
    /\ FixupCalls[1].ret = BUFFER_TOO_SMALL
    /\ FixupCalls[1].out = PageSize + 1
    /\ FixupCalls[2].ret = SUCCESS
    /\ built.result = Ok
    /\ VecLen(built.fdt_data) = MaxBlobLen
    /\ AllocCalls[1].arg = 2
    /\ newBuf.data = built.fdt_data

\* C4: the status of the retry is the result of FdtLoader::new: Ok on
\* Success, that status as the error otherwise, BufferTooSmall included; and
\* no call makes more than two fixup calls or more than one page allocation.
C4_RetryFinal ==
    /\ Len(FixupCalls) <= 2
    /\ Len(AllocCalls) <= 1
    /\ Len(FixupCalls) = 2 =>
        /\ FixupCalls[2].ret = SUCCESS => built.result = Ok
        /\ FixupCalls[2].ret # SUCCESS => built.result = Err(FixupCalls[2].ret)
        /\ log[Len(log)] = FixupCalls[2]

C4_Witness ==
    /\ Len(FixupCalls) = 2
    /\ FixupCalls[1].ret = BUFFER_TOO_SMALL
    /\ FixupCalls[2].ret = BUFFER_TOO_SMALL
    /\ built.result = Err(BUFFER_TOO_SMALL)
    /\ Len(AllocCalls) = 1
    /\ loader[built.id].life = "failed"

\* C5: Uninstall on a loader whose set is already false aborts: it returns
\* neither Ok nor an error, and the program stops.
C5_SecondUninstallAborts ==
    (last.op = "uninstall" /\ ~last.wasSet) =>
        /\ last.result[1] = "Abort"
        /\ halted # "none"

C5_Witness ==
    /\ last.op = "uninstall"
    /\ ~last.wasSet
    /\ halted = "assert!(self.set)"

\* C6: dropping a loader aborts exactly when it is still installed (set is
\* true), completes otherwise, and leaves set as it found it.
C6_DropAbortsIffInstalled ==
    last.op = "drop" =>
        /\ (last.result[1] = "Abort") <=> last.wasSet
        /\ last.wasSet <=> halted # "none"
        /\ ~last.wasSet <=> loader[last.id].life = "dropped"
        /\ loader[last.id].set = last.wasSet

\* Loader 1 was uninstalled and then dropped; loader 2 is dropped installed.
C6_Witness ==
    /\ loader[1] = [life |-> "dropped", set |-> FALSE]
    /\ last = [op |-> "drop", id |-> 2, wasSet |-> TRUE,
               result |-> Abort("assert!(!self.set)")]
    /\ loader[2] = [life |-> "live", set |-> TRUE]
    /\ halted = "assert!(!self.set)"

\* C7: whenever FdtLoader::new has returned Ok, the blob of that call is the
\* firmware's device-tree configuration table entry.
C7_SuccessMeansRegistered ==
    (last.op = "new" /\ last.result = Ok) =>
        /\ configTable.id = last.id
        /\ configTable.buf \in {"orig", "new"}

\* C8: for every L with L + 4095 <= usize::MAX, bytes_to_pages(L) is the
\* least p with p * 4096 >= L; bytes_to_pages(0) = 0.
C8_MinimalPages ==
    (pgPages # NotComputed /\ pgBytes + UEFI_PAGE_MASK <= MaxUsize) =>
        /\ pgPages >= 0
        /\ pgPages * PageSize >= pgBytes
        /\ pgPages > 0 => (pgPages - 1) * PageSize < pgBytes
        /\ pgBytes = 0 => pgPages = 0

C8_Witness ==
    /\ pgBytes = PageSize + 1
    /\ pgPages = 2

\* The largest p such that p * 4096 fits the usize.
MaxPagesFit == MaxUsize \div PageSize

\* C9 as stated: when L + 4095 overflows the usize, bytes_to_pages(L) is the
\* largest p such that p * 4096 still fits the usize.
C9_SaturatesAtLargestFit ==
    (pgPages # NotComputed /\ pgBytes + UEFI_PAGE_MASK > MaxUsize) =>
        pgPages = MaxPagesFit

\* C9, amended: when L + 4095 overflows the usize, bytes_to_pages(L) is
\* 2^(w - 12): the least p with p * 4096 >= L, and one more than the largest
\* p such that p * 4096 fits the usize.
C9_SaturatesAtAddressSpace ==
    (pgPages # NotComputed /\ pgBytes + UEFI_PAGE_MASK > MaxUsize) =>
        /\ pgPages = 2 ^ (UsizeBits - UEFI_PAGE_BITS)
        /\ pgPages = MaxPagesFit + 1
        /\ pgPages * PageSize >= pgBytes
        /\ (pgPages - 1) * PageSize < pgBytes
        /\ pgPages * PageSize > MaxUsize

C9_Witness ==
    /\ pgBytes = MaxUsize - UEFI_PAGE_MASK + 1
    /\ pgPages = MaxPagesFit + 1

\* C10: every fixup call, the first and the retry, passes flags with bit 0
\* (ApplyFixups) and bit 1 (ReserveMemory) both set and no other bit.
C10_BothFlags ==
    \A i \in 1..Len(FixupCalls) : FixupCalls[i].flags = 3

C10_Witness ==
    /\ Len(FixupCalls) = 2
    /\ FixupCalls[1].flags = 3
    /\ FixupCalls[2].flags = 3

\* C11: an FdtLoader::new that finds no fixup protocol never returns Ok
\* without the blob being the firmware's table entry: it ends in an explicit
\* failure (an error or a panic) and builds no loader, and it makes no fixup
\* call and no page allocation.
C11_FallbackNeverSilent ==
    (built.id # 0 /\ ~built.found) =>
        /\ built.result = Ok => configTable.id = built.id
        /\ built.result # Ok =>
             /\ built.result[1] \in {"Err", "Abort"}
             /\ loader[built.id].life = "failed"
        /\ FixupCalls = <<>>
        /\ AllocCalls = <<>>

C11_Witness ==
    /\ built.id = 1
    /\ ~built.found
    /\ built.result = Abort("todo")
    /\ halted = "todo"
    /\ loader[1].life = "failed"
    /\ log = <<>>

\* C12: no step ever releases a page allocation: the count of released
\* allocations never changes and the count of held ones never decreases,
\* whether the retry succeeds or fails, on uninstall and on drop.
C12_NeverReleased ==
    [][pagesFreed' = pagesFreed /\ pagesHeld' >= pagesHeld]_vars

\* Loader 1 grew, was uninstalled and dropped; the call for loader 2 grew
\* and its retry failed: both allocations are still held.
C12_Witness ==
    /\ loader[1] = [life |-> "dropped", set |-> FALSE]
    /\ built.id = 2
    /\ Len(FixupCalls) = 2
    /\ built.result = Err(DEVICE_ERROR)
    /\ pagesHeld = 2
    /\ pagesFreed = 0

\* C13: when the LoadedImage protocol opens, booted_image_file fails with
\* INVALID_PARAMETER if the reported image size does not fit the usize, and
\* otherwise succeeds with the reported base and exactly the reported size.
C13_ImageSizeConversion ==
    (imgOut[1] # "None" /\ is_success(imgIn.open)) =>
        IF imgIn.image_size > MaxUsize
        THEN imgOut[1] = "Err" /\ imgOut[2] = INVALID_PARAMETER
        ELSE /\ imgOut[1] = "Ok"
             /\ imgOut[2].image_size = imgIn.image_size
             /\ imgOut[2].image_base = imgIn.image_base

C13_Witness ==
    /\ imgIn = [open |-> SUCCESS, image_base |-> PageSize, image_size |-> MaxUsize + 1]
    /\ imgOut[1] = "Err"
    /\ imgOut[2] = INVALID_PARAMETER

\* The loaders in state Installed: constructed, not dropped, set still true.
Installed == {i \in LoaderIds : loader[i].life = "live" /\ loader[i].set}

\* C14 as stated: at most one FdtLoader is Installed at any time.
C14_AtMostOneInstalled == Cardinality(Installed) <= 1

\* C14, amended: the loaders do not enforce it. From a state with at most one
\* Installed loader, every step other than an FdtLoader::new issued while a
\* loader is Installed leaves at most one Installed.
C14_OneInstalledUnderDiscipline ==
    [][(/\ Cardinality(Installed) <= 1
        /\ ~(built'.id # built.id /\ Cardinality(Installed) = 1))
       => Cardinality(Installed') <= 1]_vars

\* Loader 1 was uninstalled before loader 2 was constructed: one Installed.
C14_Witness ==
    /\ loader[1] = [life |-> "live", set |-> FALSE]
    /\ loader[2] = [life |-> "live", set |-> TRUE]
    /\ last.op = "new"
    /\ Installed = {2}

\* C15: a loader is created Installed; set changes only by an uninstall of an
\* Installed loader, which returns Ok and leaves it Uninstalled; an
\* Uninstalled loader never becomes Installed again.
C15_OnlyUninstallChangesState ==
    [][\A i \in LoaderIds :
         /\ (loader[i].life = "unborn" /\ loader'[i].life = "live") => loader'[i].set
         /\ (loader[i].life # "unborn" /\ ~loader[i].set) => ~loader'[i].set
         /\ (loader[i].life = "live" /\ loader'[i].set # loader[i].set) =>
              /\ last' = [op |-> "uninstall", id |-> i, wasSet |-> TRUE, result |-> Ok]
              /\ loader[i].set
              /\ ~loader'[i].set
         /\ (last' # last /\ last'.op = "uninstall" /\ last'.id = i /\ loader[i].set) =>
              /\ last'.result = Ok
              /\ loader'[i] = [life |-> "live", set |-> FALSE]]_vars

C15_Witness ==
    /\ last = [op |-> "uninstall", id |-> 1, wasSet |-> TRUE, result |-> Ok]
    /\ loader[1] = [life |-> "live", set |-> FALSE]

\* C16: whatever the firmware answers, an FdtLoader::new call ends in Ok, in
\* an error or in an abort after at most two fixup calls and at most one page
\* allocation, and a second BufferTooSmall starts no second growth: the
\* retry is the last step.
C16_BoundedCalls ==
    built.id # 0 =>
        /\ built.result[1] \in {"Ok", "Err", "Abort"}
        /\ Len(FixupCalls) <= 2
        /\ Len(AllocCalls) <= 1
        /\ Len(CopyCalls) <= 1
        /\ \A i \in 1..Len(log) :
             (log[i].op = "fixup" /\ log[i].buf = "new") => i = Len(log)

C16_Witness ==
    /\ built.id # 0
    /\ Len(FixupCalls) = 2
    /\ FixupCalls[2].ret = BUFFER_TOO_SMALL
    /\ Len(AllocCalls) = 1
    /\ log[Len(log)].op = "fixup"
    /\ built.result[1] = "Err"

\* The operations of log, in order.
LogOps == [i \in 1..Len(log) |-> log[i].op]

\* C17: a grow path that reaches the retry runs first fixup call on the
\* original buffer, allocate_pages, copy, drop of the original buffer, retry
\* on the new pages, in this order; after the drop no step copies from or
\* passes the original buffer.
C17_GrowOrder ==
    /\ Len(FixupCalls) = 2 =>
         /\ LogOps = <<"fixup", "allocate_pages", "copy", "drop", "fixup">>
         /\ log[1].buf = "orig"
         /\ log[5].buf = "new"
    /\ \A i \in 1..Len(log), j \in 1..Len(log) :
         (i < j /\ log[i].op = "drop") => (log[j].op # "copy" /\ log[j].buf # "orig")

C17_Witness ==
    /\ LogOps = <<"fixup", "allocate_pages", "copy", "drop", "fixup">>
    /\ log[1].buf = "orig"
    /\ log[5].buf = "new"
    /\ log[5].ret = SUCCESS

\* C18: the size passed to the retry is R rounded up to the page boundary:
\* ceil(R / 4096) * 4096 without wrapping, a multiple of 4096 and >= R.
C18_RetrySizeRounded ==
    Len(FixupCalls) = 2 =>
        /\ FixupCalls[2].arg = CeilPages(FixupCalls[1].out) * PageSize
        /\ FixupCalls[2].arg % PageSize = 0
        /\ FixupCalls[2].arg >= FixupCalls[1].out

\* C19: whenever the copy is performed, the number of bytes copied is at most
\* the size of the allocation: original_length <= pages * 4096.
C19_CopyFits ==
    \A i \in 1..Len(CopyCalls) :
        CopyCalls[i].arg <= AllocCalls[1].arg * PageSize

\* C20: when allocate_pages fails, FdtLoader::new fails with the allocator's
\* error, copies nothing, issues no retry and builds no loader.
C20_AllocFailure ==
    (AllocCalls # <<>> /\ AllocCalls[1].ret # SUCCESS) =>
        /\ built.result = Err(AllocCalls[1].ret)
        /\ CopyCalls = <<>>
        /\ Len(FixupCalls) = 1
        /\ newBuf = NoBuf
        /\ loader[built.id].life = "failed"
        /\ built.id \notin Installed

C20_Witness ==
    /\ Len(AllocCalls) = 1
    /\ AllocCalls[1].ret = OUT_OF_RESOURCES
    /\ built.result = Err(OUT_OF_RESOURCES)
    /\ loader[built.id].life = "failed"
    /\ Len(FixupCalls) = 1

====
